---------------------------- MODULE Spec2Model ----------------------------
(***************************************************************************)
(* Model of the Shareable Notes AI proxy: the POST /api/ai handler of      *)
(* src/server.js and the task functions of src/aiService.js.               *)
(*                                                                         *)
(* Text is a sequence of symbols.  A symbol is a one-character string      *)
(* ("a", ",", " ", "\n", "[", ...; the backtick is written "BT") or, in     *)
(* JSON, one lexical token (a string literal such as "\"term\"", a number, *)
(* null, true, false), or the word "json" that follows an opening fence.   *)
(* The content of a request is kept by its length only, and the fields of  *)
(* a request body are strings or absent.                                   *)
(***************************************************************************)
EXTENDS Integers, Sequences, FiniteSets, TLC

(* ------------------------------ bounds -------------------------------- *)

\* number of concurrent POST /api/ai requests
NumRequests == 2

\* number of comma-separated pieces of a raw tag completion
MaxPieces == 6

\* number of elements of a raw glossary array
MaxItems == 2

(* --------------------------- program constants ------------------------ *)

\* server.js:59  content.length > 50000
MaxContentLength == 50000

\* aiService.js:71  .slice(0, 5)
MaxTags == 5

\* server.js:29,51  the placeholder sentinel
PLACEHOLDER_KEY == "your_groq_api_key_here"

(* ------------------------------ text ---------------------------------- *)

\* String.prototype.trim strips white space and line terminators
IsWhitespace(c) == c \in {" ", "\n", "\t"}

RECURSIVE TrimStart(_)
TrimStart(s) ==
  IF s # <<>> /\ IsWhitespace(Head(s)) THEN TrimStart(Tail(s)) ELSE s

RECURSIVE TrimEnd(_)
TrimEnd(s) ==
  IF s # <<>> /\ IsWhitespace(s[Len(s)])
  THEN TrimEnd(SubSeq(s, 1, Len(s) - 1))
  ELSE s

\* tag.trim()
Trim(s) == TrimEnd(TrimStart(s))

\* index of the first occurrence of symbol c in s, 0 when there is none
RECURSIVE IndexOfFrom(_, _, _)
IndexOfFrom(s, c, i) ==
  IF i > Len(s) THEN 0
  ELSE IF s[i] = c THEN i
  ELSE IndexOfFrom(s, c, i + 1)

\* response.split(','): always at least one piece, "" gives [""]
RECURSIVE Split(_, _)
Split(s, sep) ==
  LET i == IndexOfFrom(s, sep, 1)
  IN  IF i = 0 THEN <<s>>
      ELSE <<SubSeq(s, 1, i - 1)>> \o Split(SubSeq(s, i + 1, Len(s)), sep)

\* .map(tag => tag.trim())
MapTrim(pieces) == [i \in 1..Len(pieces) |-> Trim(pieces[i])]

\* .filter(tag => tag.length > 0)
RECURSIVE FilterNonEmpty(_)
FilterNonEmpty(pieces) ==
  IF pieces = <<>> THEN <<>>
  ELSE IF Len(Head(pieces)) > 0
       THEN <<Head(pieces)>> \o FilterNonEmpty(Tail(pieces))
       ELSE FilterNonEmpty(Tail(pieces))

\* .slice(0, n)
Slice(xs, n) == SubSeq(xs, 1, IF Len(xs) < n THEN Len(xs) ELSE n)

\* a slip: truncating before the empty pieces are dropped
NormalizeTagsSliceFirst(response) ==
  FilterNonEmpty(MapTrim(Slice(Split(response, ","), MaxTags)))

\* suggestTags, the post-processing of the completion text
NormalizeTags(response) ==
  Slice(FilterNonEmpty(MapTrim(Split(response, ","))), MaxTags)


(* ------------------------------ JSON ---------------------------------- *)

\* JSON values: k is the kind, s the token of a string or number, items the
\* elements of an array, fields the members of an object in source order.
\* (Record fields are written in the order TLC keeps them in.)
JUndefined == [s |-> "", k |-> "undefined", items |-> <<>>, fields |-> <<>>]
JNull      == [s |-> "", k |-> "null", items |-> <<>>, fields |-> <<>>]
JBool(b)   == [s |-> "", k |-> IF b THEN "true" ELSE "false", items |-> <<>>, fields |-> <<>>]
JNum(tok)  == [s |-> tok, k |-> "num", items |-> <<>>, fields |-> <<>>]
JStr(tok)  == [s |-> tok, k |-> "str", items |-> <<>>, fields |-> <<>>]
JArr(xs)   == [s |-> "", k |-> "arr", items |-> xs, fields |-> <<>>]
JObj(fs)   == [s |-> "", k |-> "obj", items |-> <<>>, fields |-> fs]

\* the string literals and numbers the model's completions are written with
StringTokens == {"\"term\"", "\"definition\"", "\"x\"", "\"y\"", "\"\""}
NumberTokens == {"0", "1"}

\* JSON white space between tokens
IsJsonWhitespace(c) == c \in {" ", "\n", "\t"}

RECURSIVE SkipWs(_, _)
SkipWs(t, i) ==
  IF i <= Len(t) /\ IsJsonWhitespace(t[i]) THEN SkipWs(t, i + 1) ELSE i

ParseFail == [ok |-> FALSE, val |-> JUndefined, pos |-> 0]
ParseOk(v, p) == [ok |-> TRUE, val |-> v, pos |-> p]

RECURSIVE ParseValue(_, _)
RECURSIVE ParseElements(_, _, _)
RECURSIVE ParseMembers(_, _, _)

\* value := string | number | null | true | false | array | object
ParseValue(t, i0) ==
  LET i == SkipWs(t, i0)
  IN  IF i > Len(t) THEN ParseFail
      ELSE IF t[i] \in StringTokens THEN ParseOk(JStr(t[i]), i + 1)
      ELSE IF t[i] \in NumberTokens THEN ParseOk(JNum(t[i]), i + 1)
      ELSE IF t[i] = "null" THEN ParseOk(JNull, i + 1)
      ELSE IF t[i] = "true" THEN ParseOk(JBool(TRUE), i + 1)
      ELSE IF t[i] = "false" THEN ParseOk(JBool(FALSE), i + 1)
      ELSE IF t[i] = "["
           THEN LET j == SkipWs(t, i + 1)
                IN  IF j <= Len(t) /\ t[j] = "]"
                    THEN ParseOk(JArr(<<>>), j + 1)
                    ELSE ParseElements(t, i + 1, <<>>)
      ELSE IF t[i] = "{"
           THEN LET j == SkipWs(t, i + 1)
                IN  IF j <= Len(t) /\ t[j] = "}"
                    THEN ParseOk(JObj(<<>>), j + 1)
                    ELSE ParseMembers(t, i + 1, <<>>)
      ELSE ParseFail

\* elements := value (, value)* ]
ParseElements(t, i, acc) ==
  LET r == ParseValue(t, i)
  IN  IF ~r.ok THEN ParseFail
      ELSE LET j == SkipWs(t, r.pos)
           IN  IF j > Len(t) THEN ParseFail
               ELSE IF t[j] = "," THEN ParseElements(t, j + 1, Append(acc, r.val))
               ELSE IF t[j] = "]" THEN ParseOk(JArr(Append(acc, r.val)), j + 1)
               ELSE ParseFail

\* members := string : value (, string : value)* }
ParseMembers(t, i, acc) ==
  LET j == SkipWs(t, i)
  IN  IF j > Len(t) \/ t[j] \notin StringTokens THEN ParseFail
      ELSE LET c == SkipWs(t, j + 1)
           IN  IF c > Len(t) \/ t[c] # ":" THEN ParseFail
               ELSE LET r == ParseValue(t, c + 1)
                    IN  IF ~r.ok THEN ParseFail
                        ELSE LET e == SkipWs(t, r.pos)
                                 m == Append(acc, [val |-> r.val, key |-> t[j]])
                             IN  IF e > Len(t) THEN ParseFail
                                 ELSE IF t[e] = "," THEN ParseMembers(t, e + 1, m)
                                 ELSE IF t[e] = "}" THEN ParseOk(JObj(m), e + 1)
                                 ELSE ParseFail

\* JSON.parse: one value, then nothing but white space; ok = FALSE is a
\* SyntaxError
JSONParse(t) ==
  LET r == ParseValue(t, 1)
  IN  IF r.ok /\ SkipWs(t, r.pos) > Len(t) THEN r ELSE ParseFail

\* item[key] on a parsed value: the last member of that name of an object,
\* undefined on anything else that is not null
RECURSIVE LastField(_, _, _)
LastField(fs, key, i) ==
  IF i = 0 THEN JUndefined
  ELSE IF fs[i].key = key THEN fs[i].val
  ELSE LastField(fs, key, i - 1)

GetProperty(v, key) ==
  IF v.k = "obj" THEN LastField(v.fields, key, Len(v.fields)) ELSE JUndefined

\* JavaScript truthiness of a parsed value
Truthy(v) ==
  /\ v.k \notin {"undefined", "null", "false"}
  /\ ~(v.k = "num" /\ v.s = "0")
  /\ ~(v.k = "str" /\ v.s = "\"\"")

(* ----------------------- glossary normalisation ----------------------- *)

\* a fence: three backticks starting at i
FenceAt(s, i) ==
  i + 2 <= Len(s) /\ s[i] = "BT" /\ s[i + 1] = "BT" /\ s[i + 2] = "BT"

SymAt(s, i, c) == i <= Len(s) /\ s[i] = c

\* .replace(/BT BT BT json\n?/g, '') of aiService.js:108
RECURSIVE StripJsonFences(_, _)
StripJsonFences(s, i) ==
  IF i > Len(s) THEN <<>>
  ELSE IF FenceAt(s, i) /\ SymAt(s, i + 3, "json")
       THEN StripJsonFences(s, IF SymAt(s, i + 4, "\n") THEN i + 5 ELSE i + 4)
       ELSE <<s[i]>> \o StripJsonFences(s, i + 1)

\* .replace(/BT BT BT\n?/g, '') of aiService.js:109
RECURSIVE StripFences(_, _)
StripFences(s, i) ==
  IF i > Len(s) THEN <<>>
  ELSE IF FenceAt(s, i)
       THEN StripFences(s, IF SymAt(s, i + 3, "\n") THEN i + 4 ELSE i + 3)
       ELSE <<s[i]>> \o StripFences(s, i + 1)

\* aiService.js:107-110
CleanResponse(text) == Trim(StripFences(StripJsonFences(text, 1), 1))

\* glossary.every(item => item.term && item.definition): "true", "false",
\* or "throw" when item is null (a TypeError); every stops at the first
\* falsy answer
RECURSIVE EveryTermAndDefinition(_)
EveryTermAndDefinition(items) ==
  IF items = <<>> THEN "true"
  ELSE LET item == Head(items)
       IN  IF item.k = "null" THEN "throw"
           ELSE IF Truthy(GetProperty(item, "\"term\""))
                   /\ Truthy(GetProperty(item, "\"definition\""))
                THEN EveryTermAndDefinition(Tail(items))
                ELSE "false"

\* how a call ends: it returns value, or throws an Error with message
Return(v) == [kind |-> "return", value |-> v, message |-> ""]
Throw(msg) == [kind |-> "throw", value |-> <<>>, message |-> msg]

\* the try block of generateGlossary, aiService.js:104-119; response is
\* [defined, text]: response.replace is a TypeError on a non-string
GlossaryTry(response) ==
  IF ~response.defined
  THEN Throw("Cannot read properties of undefined (reading 'replace')")
  ELSE LET parsed == JSONParse(CleanResponse(response.text))
       IN  IF ~parsed.ok THEN Throw("Unexpected token in JSON")
           ELSE IF parsed.val.k # "arr" THEN Throw("Invalid glossary format")
           ELSE LET every == EveryTermAndDefinition(parsed.val.items)
                IN  IF every = "true" THEN Return(parsed.val.items)
                    ELSE IF every = "throw"
                         THEN Throw("Cannot read properties of null (reading 'term')")
                         ELSE Throw("Invalid glossary format")

\* a slip: validation left outside the try block
NormalizeGlossaryNoCatch(response) == GlossaryTry(response)

\* generateGlossary after the upstream call: the catch block returns []
NormalizeGlossary(response) ==
  LET r == GlossaryTry(response)
  IN  IF r.kind = "throw" THEN Return(<<>>) ELSE r


(* ------------------------- the upstream exchange ---------------------- *)

\* How axios.post settles.  kind "network": rejected without a response;
\* kind "http": rejected with a response whose data.error.message is
\* message when hasMessage; kind "ok": resolved, and shape says how much of
\* data.choices[0].message.content is there
Outcome(kind, shape, hasMessage, message, text) ==
  [text |-> text, kind |-> kind, message |-> message, shape |-> shape,
   hasMessage |-> hasMessage]

NetworkFailure == Outcome("network", "none", FALSE, "", <<>>)
HttpError(m) == Outcome("http", "none", TRUE, m, <<>>)
HttpErrorNoMessage == Outcome("http", "none", FALSE, "", <<>>)
Malformed(shape) == Outcome("ok", shape, FALSE, "", <<>>)
Completion(text) == Outcome("ok", "full", FALSE, "", text)

MalformedShapes == {"noChoices", "emptyChoices", "noMessage", "noContent"}

\* a completion value: a string, or undefined when content is not there
Str(text) == [text |-> text, defined |-> TRUE]
UndefinedStr == [text |-> <<>>, defined |-> FALSE]

GENERIC_ERROR == "AI service error"

\* a slip: the generic message even when the upstream supplied its own
callGroqAPIGenericOnly(o) ==
  IF o.kind = "ok" /\ o.shape = "full" THEN Return(Str(o.text))
  ELSE IF o.kind = "ok" /\ o.shape = "noContent" THEN Return(UndefinedStr)
  ELSE Throw(GENERIC_ERROR)

\* callGroqAPI once axios.post has settled with o.  Reading
\* response.data.choices[0].message.content throws a TypeError inside the
\* try when choices, choices[0] or message is missing, and yields undefined
\* when only content is missing; the catch rethrows
\* error.response?.data?.error?.message || 'AI service error'
callGroqAPI(o) ==
  IF o.kind = "ok"
  THEN IF o.shape = "full" THEN Return(Str(o.text))
       ELSE IF o.shape = "noContent" THEN Return(UndefinedStr)
       ELSE Throw(GENERIC_ERROR)
  ELSE IF o.kind = "http" /\ o.hasMessage /\ o.message # ""
       THEN Throw(o.message)
       ELSE Throw(GENERIC_ERROR)

(* --------------------------- task functions --------------------------- *)

\* what the handler gets as result: k says which task shaped it
Data(k, v) == [k |-> k, v |-> v]
NoData == Data("none", <<>>)

summarizeText(o) ==
  LET r == callGroqAPI(o)
  IN  IF r.kind = "throw" THEN r ELSE Return(Data("text", r.value))

checkGrammar(o) ==
  LET r == callGroqAPI(o)
  IN  IF r.kind = "throw" THEN r ELSE Return(Data("text", r.value))

suggestTags(o) ==
  LET r == callGroqAPI(o)
  IN  IF r.kind = "throw" THEN r
      ELSE IF ~r.value.defined
           THEN Throw("Cannot read properties of undefined (reading 'split')")
           ELSE Return(Data("tags", NormalizeTags(r.value.text)))

generateGlossary(o) ==
  LET r == callGroqAPI(o)
  IN  IF r.kind = "throw" THEN r
      ELSE LET g == NormalizeGlossary(r.value)
           IN  IF g.kind = "throw" THEN g
               ELSE Return(Data("glossary", g.value))


(* ------------------------------ requests ------------------------------ *)

Requests == 1..NumRequests

\* a field the JSON body does not have
Undefined == "<undefined>"

ValidTasks == {"summarize", "tags", "grammar", "glossary"}

\* task of a body: absent, the empty string, a routed task, or a name that
\* is not routed (findGrammarErrors is defined but has no case)
TaskValues == {Undefined, ""} \cup ValidTasks \cup {"findGrammarErrors"}

\* content of a body: a string of some length, or absent
Content(present, length) == [present |-> present, length |-> length]
ContentValues ==
  {Content(FALSE, 0), Content(TRUE, 0),
   Content(TRUE, MaxContentLength), Content(TRUE, MaxContentLength + 1)}

\* req.body after express.json(): kind "object" is a parsed object or array,
\* "undefined" a request without a JSON body under Express 5 (Express 4
\* leaves {} there), "unparseable" a body express.json() rejects
Body(kind, task, content) == [kind |-> kind, task |-> task, content |-> content]
ObjectBodies == {Body("object", t, c) : t \in TaskValues, c \in ContentValues}
NoBody == Body("undefined", Undefined, Content(FALSE, 0))
BadBody == Body("unparseable", Undefined, Content(FALSE, 0))

ExpressMajors == {4, 5}

BodiesUnder(major) ==
  ObjectBodies \cup {BadBody} \cup (IF major = 5 THEN {NoBody} ELSE {})

\* process.env.GROQ_API_KEY: unset, empty, the placeholder, or a key
KeyValues == {Undefined, "", PLACEHOLDER_KEY, "gsk_key"}

\* a JSON response; task is Undefined when the envelope has no task
Response(status, success, class, error, task, data) ==
  [task |-> task, status |-> status, success |-> success, class |-> class,
   error |-> error, data |-> data]

Falsy(v) == v \in {Undefined, ""}
FalsyContent(c) == ~c.present \/ c.length = 0

\* a slip: only the unset credential is refused, not the placeholder
KeyConfiguredNoSentinel(key) == ~Falsy(key)

\* server.js:51, negated
KeyConfigured(key) == ~Falsy(key) /\ key # PLACEHOLDER_KEY

Respond(resp) == [response |-> resp, kind |-> "respond"]
NoResponse == Response(0, FALSE, "none", "", Undefined, NoData)
CallUpstream == [response |-> NoResponse, kind |-> "call"]
Rejected == [response |-> NoResponse, kind |-> "reject"]

MissingFields ==
  Response(400, FALSE, "MissingFields",
           "Missing required fields: task and content", Undefined, NoData)
NotConfigured ==
  Response(500, FALSE, "NotConfigured",
           "AI service not configured. Please set GROQ_API_KEY in environment variables.",
           Undefined, NoData)
ContentTooLarge ==
  Response(400, FALSE, "ContentTooLarge",
           "Content too large. Maximum 50,000 characters allowed.", Undefined, NoData)
\* error is "Unknown task: ${task}. Valid tasks are: ..."; the model keeps
\* the interpolated task in the error field
UnknownTask(task) == Response(400, FALSE, "UnknownTask", task, Undefined, NoData)

\* a slip: no size limit
ValidateNoLimit(key, b) ==
  IF Falsy(b.task) \/ FalsyContent(b.content) THEN Respond(MissingFields)
  ELSE IF ~KeyConfigured(key) THEN Respond(NotConfigured)
  ELSE IF b.task \in ValidTasks THEN CallUpstream
  ELSE Respond(UnknownTask(b.task))

\* a slip: no default case, an unrouted task is summarized
ValidateNoDefault(key, b) ==
  IF Falsy(b.task) \/ FalsyContent(b.content) THEN Respond(MissingFields)
  ELSE IF ~KeyConfigured(key) THEN Respond(NotConfigured)
  ELSE IF b.content.length > MaxContentLength THEN Respond(ContentTooLarge)
  ELSE CallUpstream

\* server.js:41-93 up to the await, for a body that is an object: what the
\* handler does before it first suspends
Validate(key, b) ==
  IF Falsy(b.task) \/ FalsyContent(b.content) THEN Respond(MissingFields)
  ELSE IF ~KeyConfigured(key) THEN Respond(NotConfigured)
  ELSE IF b.content.length > MaxContentLength THEN Respond(ContentTooLarge)
  ELSE IF b.task \in ValidTasks THEN CallUpstream
  ELSE Respond(UnknownTask(b.task))

\* the switch of server.js:71-86 once the awaited call has settled
TaskResult(task, o) ==
  CASE task = "summarize" -> summarizeText(o)
    [] task = "tags" -> suggestTags(o)
    [] task = "grammar" -> checkGrammar(o)
    [] task = "glossary" -> generateGlossary(o)

\* server.js:97-101
Success(task, data) == Response(200, TRUE, "none", "", task, data)

\* a slip: the catch block logs and rethrows
CatchBlockRethrow(b, message) == Rejected

\* server.js:103-111; req.body.task throws when req.body is undefined, and
\* the promise of the handler is then rejected
CatchBlock(b, message) ==
  IF b.kind = "undefined" THEN Rejected
  ELSE Respond(Response(500, FALSE, "Thrown",
                        IF message # "" THEN message
                        ELSE "An error occurred processing your request",
                        b.task, NoData))

\* server.js:123-129
ErrorHandler ==
  Response(500, FALSE, "Internal", "Internal server error", Undefined, NoData)


(* ------------------------------- state -------------------------------- *)

VARIABLES
  GROQ_API_KEY,   \* server.js:11, read once at start-up
  expressMajor,   \* the major version of the express the server runs on
  pc,             \* per request: "idle", "awaiting", "done", "unhandled"
  body,           \* per request: req.body
  calls,          \* per request: how many times axios.post was called
  settled,        \* per request: how its axios.post settled
  responses       \* per request: the responses written to res, in order

vars == <<GROQ_API_KEY, expressMajor, pc, body, calls, settled, responses>>

NoRequest == Body("none", Undefined, Content(FALSE, 0))
NoOutcome == Outcome("none", "none", FALSE, "", <<>>)

\* the completions the upstream answers with in Spec
TagsText == <<"a", ",", " ", "b", " ", ",", ",", "c">>
FencedGlossaryText ==
  <<"BT", "BT", "BT", "json", "\n",
    "[", "{", "\"term\"", ":", "\"x\"", ",", "\"definition\"", ":", "\"y\"", "}", "]",
    "\n", "BT", "BT", "BT">>
ServerTexts == {TagsText, FencedGlossaryText}

ServerOutcomes ==
  {NetworkFailure, HttpError("Invalid API Key"), HttpError(""), HttpErrorNoMessage}
    \cup {Malformed(sh) : sh \in MalformedShapes}
    \cup {Completion(t) : t \in ServerTexts}

Init ==
  /\ GROQ_API_KEY \in KeyValues
  /\ expressMajor \in ExpressMajors
  /\ pc = [r \in Requests |-> "idle"]
  /\ body = [r \in Requests |-> NoRequest]
  /\ calls = [r \in Requests |-> 0]
  /\ settled = [r \in Requests |-> NoOutcome]
  /\ responses = [r \in Requests |-> <<>>]

\* res.status(..).json(..) ends the request
Send(r, resp) ==
  /\ responses' = [responses EXCEPT ![r] = Append(@, resp)]
  /\ pc' = [pc EXCEPT ![r] = "done"]

\* How the handler's run ends.  A rejected promise of an async handler is
\* passed to next(err) by Express 5 and reaches the error handler of
\* server.js:123; Express 4 does not observe it and nothing is sent
Finish(r, h) ==
  IF h.kind = "respond" THEN Send(r, h.response)
  ELSE IF expressMajor = 5 THEN Send(r, ErrorHandler)
  ELSE /\ pc' = [pc EXCEPT ![r] = "unhandled"]
       /\ UNCHANGED responses

\* a slip: task kept in a variable of the module, which holds what the
\* first request put there
RequestTaskShared(r) == body[1].task

\* server.js:41 and 99: task is a const of this run of the handler

RequestTask(r) == body[r].task

\* A request arrives with body b and the handler runs up to its first await
\* (server.js:39-93), or not at all when express.json() fails
Receive(r, b) ==
  /\ pc[r] = "idle"
  /\ b \in BodiesUnder(expressMajor)
  /\ body' = [body EXCEPT ![r] = b]
  /\ IF b.kind = "unparseable"
     THEN Send(r, ErrorHandler) /\ UNCHANGED calls
     ELSE IF b.kind = "undefined"
     THEN Finish(r, CatchBlock(b, "Cannot destructure property 'task' of 'req.body'"))
          /\ UNCHANGED calls
     ELSE LET d == Validate(GROQ_API_KEY, b)
          IN  IF d.kind = "call"
              THEN /\ pc' = [pc EXCEPT ![r] = "awaiting"]
                   /\ calls' = [calls EXCEPT ![r] = @ + 1]
                   /\ UNCHANGED responses
              ELSE Finish(r, d) /\ UNCHANGED calls
  /\ UNCHANGED <<GROQ_API_KEY, expressMajor, settled>>

\* a slip: one more attempt after a failed one
UpstreamSettleRetry(r, o) ==
  /\ pc[r] = "awaiting"
  /\ settled' = [settled EXCEPT ![r] = o]
  /\ LET res == TaskResult(body[r].task, o)
     IN  IF res.kind = "return"
         THEN Finish(r, Respond(Success(RequestTask(r), res.value)))
              /\ UNCHANGED calls
         ELSE IF calls[r] < 2
         THEN calls' = [calls EXCEPT ![r] = @ + 1] /\ UNCHANGED <<pc, responses>>
         ELSE Finish(r, CatchBlock(body[r], res.message)) /\ UNCHANGED calls
  /\ UNCHANGED <<GROQ_API_KEY, expressMajor, body>>

\* The awaited axios.post of request r settles with o and the handler runs
\* to its end (aiService.js:38-42, the task function, server.js:95-111)
UpstreamSettle(r, o) ==
  /\ pc[r] = "awaiting"
  /\ settled' = [settled EXCEPT ![r] = o]
  /\ LET res == TaskResult(body[r].task, o)
     IN  IF res.kind = "return"
         THEN Finish(r, Respond(Success(RequestTask(r), res.value)))
         ELSE Finish(r, CatchBlock(body[r], res.message))
  /\ UNCHANGED <<GROQ_API_KEY, expressMajor, body, calls>>

Next ==
  \/ \E r \in Requests : \E b \in ObjectBodies \cup {NoBody, BadBody} : Receive(r, b)
  \/ \E r \in Requests : \E o \in ServerOutcomes : UpstreamSettle(r, o)

Spec == Init /\ [][Next]_vars


(* ------------------- tag normalisation on its own --------------------- *)

RECURSIVE JoinWith(_, _)
JoinWith(pieces, sep) ==
  IF Len(pieces) = 0 THEN <<>>
  ELSE IF Len(pieces) = 1 THEN pieces[1]
  ELSE pieces[1] \o <<sep>> \o JoinWith(Tail(pieces), sep)

\* the comma-free pieces raw tag completions are built from; every text is
\* the comma-join of its comma-free pieces
TagPieces == {<<>>, <<"a">>, <<" ", "b", "\n">>, <<"a", " ", "b">>}

\* "alpha, beta ,gamma,,delta, epsilon, zeta"
ExampleTagsText ==
  <<"a", "l", "p", "h", "a", ",", " ", "b", "e", "t", "a", " ", ",",
    "g", "a", "m", "m", "a", ",", ",", "d", "e", "l", "t", "a", ",", " ",
    "e", "p", "s", "i", "l", "o", "n", ",", " ", "z", "e", "t", "a">>

TagInputs ==
  {JoinWith(ps, ",") : ps \in UNION {[1..n -> TagPieces] : n \in 1..MaxPieces}}
    \cup {ExampleTagsText}

TagsBody == Body("object", "tags", Content(TRUE, MaxContentLength))

InitTags == Init /\ KeyConfigured(GROQ_API_KEY)

NextTags ==
  \/ Receive(1, TagsBody)
  \/ \E t \in TagInputs : UpstreamSettle(1, Completion(t))

\* one tags request, answered with every raw completion of TagInputs
SpecTags == InitTags /\ [][NextTags]_vars

(* ----------------- glossary normalisation on its own ------------------ *)

Fence == <<"BT", "BT", "BT">>

Member(key, val) == <<key, ":">> \o val
Object2(m1, m2) == <<"{">> \o m1 \o <<",">> \o m2 \o <<"}">>
TermX == Member("\"term\"", <<"\"x\"">>)
DefY == Member("\"definition\"", <<"\"y\"">>)
GoodItem == Object2(TermX, DefY)

\* the elements raw glossary arrays are built from
GlossaryItems ==
  { GoodItem,
    <<"{">> \o TermX \o <<"}">>,
    <<"{">> \o DefY \o <<"}">>,
    Object2(Member("\"term\"", <<"\"\"">>), DefY),
    Object2(TermX, Member("\"definition\"", <<"null">>)),
    Object2(TermX, Member("\"definition\"", <<"0">>)),
    Object2(Member("\"term\"", <<"1">>), Member("\"definition\"", <<"true">>)),
    Object2(TermX, Member("\"definition\"", <<"[", "]">>)),
    <<"{", " ">> \o DefY \o <<" ", ",", "\n">> \o TermX \o <<"}">>,
    <<"null">>,
    <<"\"x\"">> }

ArrayOf(items) == <<"[">> \o JoinWith(items, ",") \o <<"]">>

\* what stands between the fences: arrays of up to MaxItems elements, JSON
\* that is no array, text that is no JSON
GlossaryBodies ==
  {ArrayOf(is) : is \in UNION {[1..n -> GlossaryItems] : n \in 0..MaxItems}}
    \cup { GoodItem,
           <<"\"x\"">>,
           <<"H", "e", "r", "e">>,
           <<>>,
           <<"[">> \o GoodItem,
           <<"[">> \o GoodItem \o <<",", "]">>,
           ArrayOf(<<GoodItem>>) \o <<"]">> }

GlossaryPrefixes ==
  { <<>>,
    Fence \o <<"json", "\n">>,
    Fence \o <<"json">>,
    Fence \o <<"\n">>,
    <<" ", "\n">>,
    <<"H", "e", "r", "e", ":", "\n">> \o Fence \o <<"json", "\n">>,
    <<"BT">> \o Fence \o <<"\n">> }

GlossarySuffixes ==
  { <<>>, <<"\n">> \o Fence, Fence \o <<"\n">>, <<" ">>, Fence \o <<"BT">> }

GlossaryInputs ==
  {p \o b \o x : p \in GlossaryPrefixes, b \in GlossaryBodies, x \in GlossarySuffixes}

GlossaryBody == Body("object", "glossary", Content(TRUE, MaxContentLength))

InitGlossary == Init /\ KeyConfigured(GROQ_API_KEY)

NextGlossary ==
  \/ Receive(1, GlossaryBody)
  \/ \E t \in GlossaryInputs : UpstreamSettle(1, Completion(t))

\* one glossary request, answered with every raw completion of
\* GlossaryInputs
SpecGlossary == InitGlossary /\ [][NextGlossary]_vars


(* ------------------------------- claims ------------------------------- *)

Min2(a, b) == IF a < b THEN a ELSE b

\* the k-th smallest element of a finite set of integers
KthOf(S, k) == CHOOSE i \in S : Cardinality({j \in S : j < i}) = k - 1

\* the reference of tag normalisation, stated on positions rather than by
\* a pipeline: the pieces are what lies between consecutive commas, a piece
\* is stripped to the span from its first to its last non-white symbol, and
\* the result lists the first five pieces that have such a span
CommaPositions(t) == {i \in 1..Len(t) : t[i] = ","}

PieceOf(t, k) ==
  LET C == CommaPositions(t)
      from == IF k = 1 THEN 1 ELSE KthOf(C, k - 1) + 1
      to == IF k = Cardinality(C) + 1 THEN Len(t) ELSE KthOf(C, k) - 1
  IN  SubSeq(t, from, to)

Stripped(p) ==
  LET I == {i \in 1..Len(p) : p[i] \notin {" ", "\n", "\t"}}
  IN  IF I = {} THEN <<>>
      ELSE SubSeq(p, KthOf(I, 1), KthOf(I, Cardinality(I)))

ReferenceTags(t) ==
  LET n == Cardinality(CommaPositions(t)) + 1
      K == {k \in 1..n : Stripped(PieceOf(t, k)) # <<>>}
  IN  [m \in 1..Min2(MaxTags, Cardinality(K)) |-> Stripped(PieceOf(t, KthOf(K, m)))]

ExampleTags ==
  << <<"a", "l", "p", "h", "a">>, <<"b", "e", "t", "a">>,
     <<"g", "a", "m", "m", "a">>, <<"d", "e", "l", "t", "a">>,
     <<"e", "p", "s", "i", "l", "o", "n">> >>

\* request r was a tags request whose upstream call returned a completion
TagsAnswered(r) ==
  /\ pc[r] = "done"
  /\ body[r].task = "tags"
  /\ settled[r].kind = "ok" /\ settled[r].shape = "full"

\* C2: for every raw completion text the tags of the response equal the
\* reference (split on commas, trim each piece, drop the pieces that are
\* empty after trimming, keep the first 5 in order): at most 5 entries, none
\* empty or with surrounding white space, no padding, and the example text
\* gives exactly alpha, beta, gamma, delta, epsilon
C2_TagsEqualReference ==
  \A r \in Requests :
    TagsAnswered(r) =>
      LET resp == responses[r][1]
          tags == resp.data.v
          raw == settled[r].text
      IN  /\ resp.status = 200 /\ resp.data.k = "tags"
          /\ tags = ReferenceTags(raw)
          /\ Len(tags) <= 5
          /\ \A i \in 1..Len(tags) :
               /\ tags[i] # <<>>
               /\ ~IsWhitespace(tags[i][1])
               /\ ~IsWhitespace(tags[i][Len(tags[i])])
          /\ (raw = ExampleTagsText => tags = ExampleTags)

\* C2 witness: a completion with more than five non-blank pieces and a
\* blank one among them has been normalised to five tags
C2_Witness ==
  \E r \in Requests :
    /\ TagsAnswered(r)
    /\ settled[r].text = ExampleTagsText
    /\ Len(responses[r][1].data.v) = 5


\* JSON.stringify of a parsed value, as symbols
RECURSIVE Stringify(_)
RECURSIVE StringifyAll(_, _)
RECURSIVE StringifyMembers(_, _)
Stringify(j) ==
  IF j.k = "arr" THEN <<"[">> \o StringifyAll(j.items, 1) \o <<"]">>
  ELSE IF j.k = "obj" THEN <<"{">> \o StringifyMembers(j.fields, 1) \o <<"}">>
  ELSE IF j.k \in {"str", "num"} THEN <<j.s>>
  ELSE <<j.k>>

StringifyAll(xs, i) ==
  IF i > Len(xs) THEN <<>>
  ELSE Stringify(xs[i]) \o (IF i < Len(xs) THEN <<",">> ELSE <<>>)
         \o StringifyAll(xs, i + 1)

StringifyMembers(fs, i) ==
  IF i > Len(fs) THEN <<>>
  ELSE <<fs[i].key, ":">> \o Stringify(fs[i].val)
         \o (IF i < Len(fs) THEN <<",">> ELSE <<>>)
         \o StringifyMembers(fs, i + 1)

\* a text without its backticks, the word json and its white space
Significant(t) == SelectSeq(t, LAMBDA c : c \notin {"BT", "json", " ", "\n", "\t"})

Occurs(t, c) == \E i \in 1..Len(t) : t[i] = c

\* a field that is there and is neither null nor the empty string
NonEmptyField(j) ==
  /\ j.k \notin {"undefined", "null"}
  /\ ~(j.k = "str" /\ j.s = "\"\"")

FencedGoodText ==
  Fence \o <<"json", "\n">> \o ArrayOf(<<GoodItem>>) \o <<"\n">> \o Fence

GoodEntry ==
  JObj(<< [val |-> JStr("\"x\""), key |-> "\"term\""],
          [val |-> JStr("\"y\""), key |-> "\"definition\""] >>)

\* request r was a glossary request whose upstream call returned a
\* completion
GlossaryAnswered(r) ==
  /\ pc[r] = "done"
  /\ body[r].task = "glossary"
  /\ settled[r].kind = "ok" /\ settled[r].shape = "full"

CredentialMissing == GROQ_API_KEY \in {Undefined, "", PLACEHOLDER_KEY}

\* request r has arrived with a body that express.json() parsed
Arrived(r) == body[r].kind = "object"

TooLong(r) == Arrived(r) /\ body[r].content.length > 50000

UnroutedTask(r) ==
  Arrived(r) /\ body[r].task # Undefined /\ body[r].task \notin ValidTasks

ContentPresent(r) == body[r].content.present /\ body[r].content.length > 0

\* C4 as claimed: content present and a task outside the four is answered
\* 400 'Unknown task' without an upstream call
C4_Original ==
  \A r \in Requests :
    (UnroutedTask(r) /\ ContentPresent(r)) =>
      /\ calls[r] = 0
      /\ pc[r] = "done" /\ Len(responses[r]) = 1
      /\ responses[r][1].status = 400 /\ responses[r][1].class = "UnknownTask"

\* C4 amended: a task outside the four never causes an upstream call; when
\* moreover the task is not the empty string, the content is present and
\* of at most 50,000 characters and the credential is configured, the
\* answer is 400 'Unknown task' naming that task
C4_UnknownTaskNoUpstream ==
  \A r \in Requests :
    UnroutedTask(r) =>
      /\ calls[r] = 0
      /\ pc[r] = "done" /\ Len(responses[r]) = 1
      /\ (/\ body[r].task # ""
          /\ ContentPresent(r) /\ body[r].content.length <= 50000
          /\ ~CredentialMissing)
         => /\ responses[r][1].status = 400
            /\ responses[r][1].class = "UnknownTask"
            /\ responses[r][1].error = body[r].task
            /\ ~responses[r][1].success

\* C4 witness: findGrammarErrors with content has been answered 400
\* 'Unknown task'
C4_Witness ==
  \E r \in Requests :
    /\ UnroutedTask(r) /\ ContentPresent(r) /\ ~CredentialMissing
    /\ pc[r] = "done" /\ responses[r][1].class = "UnknownTask"

\* C5: with the credential absent or the placeholder, a routed task with
\* non-empty content of at most 50,000 characters is answered 500 'not
\* configured' and no upstream call is started
C5_NotConfigured ==
  \A r \in Requests :
    (/\ CredentialMissing
     /\ Arrived(r) /\ body[r].task \in ValidTasks
     /\ ContentPresent(r) /\ body[r].content.length <= 50000)
    => /\ calls[r] = 0
       /\ pc[r] = "done" /\ Len(responses[r]) = 1
       /\ responses[r][1].status = 500
       /\ responses[r][1].class = "NotConfigured"
       /\ ~responses[r][1].success

\* C5 witness: under the placeholder credential a summarize request has
\* been answered 500
C5_Witness ==
  \E r \in Requests :
    /\ GROQ_API_KEY = PLACEHOLDER_KEY
    /\ Arrived(r) /\ body[r].task = "summarize" /\ ContentPresent(r)
    /\ pc[r] = "done" /\ responses[r][1].status = 500

\* C6 as claimed: a resolved upstream response that lacks choices, the
\* first choice, its message or the content of the message is answered 500
\* with success false, never 200
C6_MalformedIs500 ==
  \A r \in Requests :
    (/\ pc[r] = "done"
     /\ settled[r].kind = "ok" /\ settled[r].shape \in MalformedShapes)
    => /\ responses[r][1].status = 500
       /\ ~responses[r][1].success

UpstreamFailed(r) == settled[r].kind \in {"network", "http"}

\* C7: a validated request whose upstream call fails is answered 500 with
\* success false, the task of that request, and as error the message the
\* upstream supplied, else 'AI service error'
C7_UpstreamFailure ==
  \A r \in Requests :
    UpstreamFailed(r) =>
      /\ pc[r] = "done" /\ Len(responses[r]) = 1
      /\ responses[r][1].status = 500
      /\ ~responses[r][1].success
      /\ responses[r][1].task = body[r].task
      /\ responses[r][1].data = NoData
      /\ responses[r][1].error =
           IF settled[r].kind = "http" /\ settled[r].hasMessage
              /\ settled[r].message # ""
           THEN settled[r].message
           ELSE "AI service error"

\* C7 witness: a grammar request whose credential the upstream rejected
\* has been answered with the upstream's message
C7_Witness ==
  \E r \in Requests :
    /\ body[r].task = "grammar"
    /\ settled[r] = HttpError("Invalid API Key")
    /\ pc[r] = "done" /\ responses[r][1].error = "Invalid API Key"

\* C8: at most one upstream call per request: exactly one behind every
\* 200, none behind a response of validation, and a failed call is not
\* repeated but answered at once
C8_AtMostOneCall ==
  \A r \in Requests :
    /\ calls[r] <= 1
    /\ (pc[r] = "awaiting" => calls[r] = 1 /\ settled[r] = NoOutcome)
    /\ (pc[r] = "done" =>
          /\ responses[r][1].status = 200 => calls[r] = 1
          /\ responses[r][1].class \in
               {"MissingFields", "NotConfigured", "ContentTooLarge", "UnknownTask"}
             => calls[r] = 0)
    /\ (UpstreamFailed(r) =>
          calls[r] = 1 /\ pc[r] = "done" /\ responses[r][1].status = 500)

\* C8 witness: a call that failed on the network has been answered
C8_Witness ==
  \E r \in Requests :
    settled[r] = NetworkFailure /\ pc[r] = "done" /\ calls[r] = 1

\* C9: a request never ends without a response; a request that has ended
\* has exactly one response, a JSON envelope with status 200, 400 or 500,
\* and a request that has not ended has none
C9_ExactlyOneResponse ==
  \A r \in Requests :
    /\ pc[r] \in {"idle", "awaiting", "done"}
    /\ (pc[r] = "done" <=> Len(responses[r]) = 1)
    /\ Len(responses[r]) <= 1
    /\ (pc[r] = "idle" <=> body[r] = NoRequest)
    /\ (pc[r] = "done" =>
          /\ responses[r][1].status \in {200, 400, 500}
          /\ responses[r][1].success = (responses[r][1].status = 200)
          /\ (~responses[r][1].success => responses[r][1].error # ""))

\* C9 witness: a request without a body, whose catch block itself threw,
\* has been answered 500 by the error handler
C9_Witness ==
  \E r \in Requests :
    body[r].kind = "undefined" /\ pc[r] = "done" /\ responses[r] = <<ErrorHandler>>

\* what one request gets from its own body, the credential and its own
\* upstream outcome
OwnResponse(key, b, o) ==
  IF b.kind # "object" THEN ErrorHandler
  ELSE LET d == Validate(key, b)
       IN  IF d.kind = "respond" THEN d.response
           ELSE LET res == TaskResult(b.task, o)
                IN  IF res.kind = "return" THEN Success(b.task, res.value)
                    ELSE CatchBlock(b, res.message).response

Touched(r) ==
  \/ pc'[r] # pc[r]
  \/ body'[r] # body[r]
  \/ calls'[r] # calls[r]
  \/ settled'[r] # settled[r]
  \/ responses'[r] # responses[r]

\* C10: under every interleaving the response of a request is the one its
\* own body, the credential and its own upstream outcome give; a step of one
\* request leaves every other request's state alone; the credential never
\* changes
C10_Independent ==
  /\ [](\A r \in Requests :
          pc[r] = "done" =>
            responses[r] = <<OwnResponse(GROQ_API_KEY, body[r], settled[r])>>)
  /\ [][/\ GROQ_API_KEY' = GROQ_API_KEY
        /\ \A r1, r2 \in Requests : (Touched(r1) /\ Touched(r2)) => r1 = r2]_vars

\* C10 witness: two requests with different tasks were in flight together
\* and both have been answered 200
C10_Witness ==
  /\ NumRequests >= 2
  /\ pc[1] = "done" /\ pc[2] = "done"
  /\ body[1].task = "tags" /\ body[2].task = "glossary"
  /\ responses[1][1].status = 200 /\ responses[2][1].status = 200
  /\ settled[1] # settled[2]

=============================================================================
